---- MODULE Spec2Model ----
(***************************************************************************)
(* Model of src/src/core/runtime.rs: the Runtime orchestrator.             *)
(*                                                                         *)
(*   Runtime::new          selects the TwitterType variant from the six    *)
(*                         optional credentials (or panics), loads memory  *)
(*   Runtime::add_agent    pushes one Agent                                *)
(*   Runtime::run          one cycle: select agent, prompt, add_to_memory, *)
(*                         discord send, tweet                             *)
(*   Runtime::run_periodically   loop { sleep(random); run; log error }    *)
(*                                                                         *)
(* run is an async fn: every .await is a suspension point, so a cycle is   *)
(* modelled as one action per awaited call, sequenced by pc.  The program  *)
(* is a single task; pc is the position of that task.                      *)
(***************************************************************************)
EXTENDS Integers, Sequences, FiniteSets

\* ------------------------------------------------------------- bounds
\* most agents add_agent is allowed to push
MaxAgents == 2
\* longest memory history a generation is still allowed to extend
MaxMemory == 2

\* ---------------------------------------------------- program constants
\* rng.gen_range(300..=1800)
SLEEP_MIN == 300
SLEEP_MAX == 1800

\* ------------------------------------------------------------ alphabets
Prompts == {"p1", "p2"}
Texts == {"t1", "t2"}
\* histories MemoryStore::load_memory may find on disk
StoredHistories == {<<>>, <<"t1">>}

NoArgs == "no_args"
NoLoad == "no_load"
NoText == "no_text"
NoIndex == -1

\* The six Option<&str> parameters of Runtime::new; TRUE is Some(_), FALSE is None.
ArgCombos ==
    [twitter_consumer_key : BOOLEAN, twitter_consumer_secret : BOOLEAN,
     twitter_access_token : BOOLEAN, twitter_access_token_secret : BOOLEAN,
     twitter_username : BOOLEAN, twitter_password : BOOLEAN]

\* Result<Vec<String>, _> of MemoryStore::load_memory()
LoadOutcomes ==
    {[ok |-> FALSE, value |-> <<>>]} \cup {[ok |-> TRUE, value |-> h] : h \in StoredHistories}

\* Result<String, _> of Agent::prompt
PromptOutcomes ==
    {[ok |-> FALSE, value |-> NoText]} \cup {[ok |-> TRUE, value |-> t] : t \in Texts}

\* Result<(), _> of a collaborator call
Outcomes == {"Ok", "Err"}

\* Values of the thread RNG the model explores: every small index, both ends
\* of the sleep range and the value next to each end outside it.
RngOutcomes ==
    (0..(MaxAgents + 1)) \cup {SLEEP_MIN - 1, SLEEP_MIN, SLEEP_MAX, SLEEP_MAX + 1}

VARIABLES
    pc,            \* position of the task
    caller,        \* who called run: "main" or "run_periodically"
    newArgs,       \* frame of Runtime::new: its six optional arguments
    loadRes,       \* frame of Runtime::new: what load_memory returned
    twitter,       \* Runtime.twitter: the variant
    agents,        \* Runtime.agents: the prompts of the agents, in push order
    memory,        \* Runtime.memory
    loaded,        \* the memory as Runtime::new set it
    selected,      \* run: the index drawn for this cycle
    prevSelected,  \* the index drawn by the cycle before
    response,      \* run: the generated text
    saveResult,    \* run: what add_to_memory returned in this cycle
    chatResult,    \* run: how the discord send of this cycle ended
    tweetOutcome,  \* run: what the transport returned in this cycle
    result,        \* what the last run returned
    genCalls,      \* prompt requests made by the current invocation of run
    chatCalls,     \* discord sends made by the current invocation of run
    tweetCalls,    \* tweet attempts made by the current invocation of run
    prompted,      \* run: the prompt of the agent the generation request went to
    entryMemory,   \* the memory as it was when the current invocation of run began
    discordLog,    \* every text handed to Discord::send_channel_message
    tweetLog,      \* every <<variant, text>> handed to TwitterType::tweet
    okGens,        \* cycles whose generation succeeded
    failedBefore,  \* some invocation of run has already returned an error
    sleepDuration, \* run_periodically: random_sleep_duration
    slept,         \* run_periodically: the sleep of this iteration has completed
    runsThisIter,  \* run_periodically: calls of run in this iteration
    loopLog        \* run_periodically: the error printed by the last iteration

runtime == <<twitter, agents, memory, loaded>>
cycle == <<selected, prevSelected, prompted, response, saveResult, chatResult, tweetOutcome>>
calls == <<entryMemory, genCalls, chatCalls, tweetCalls>>
logs == <<discordLog, tweetLog, okGens, failedBefore>>
loop == <<sleepDuration, slept, runsThisIter, loopLog>>
frame == <<newArgs, loadRes>>
vars == <<pc, caller, frame, runtime, cycle, calls, result, logs, loop>>

\* ------------------------------------------------------ pure operators

\* Faulty variant: the index range written closed, 0..=len
GenRange_Closed(lo, hi) == {r \in RngOutcomes : lo <= r /\ r <= hi}

\* rng.gen_range(lo..hi): the half-open range
GenRange(lo, hi) == {r \in RngOutcomes : lo <= r /\ r < hi}

\* Faulty variant: the upper end off by one
GenRangeInclusive_OffByOne(lo, hi) == {r \in RngOutcomes : lo <= r /\ r <= hi + 1}

\* rng.gen_range(lo..=hi): the closed range
GenRangeInclusive(lo, hi) == {r \in RngOutcomes : lo <= r /\ r <= hi}

\* Faulty variant: the key-auth arm matched first
SelectTwitter_KeysFirst(a) ==
    IF /\ a.twitter_consumer_key
       /\ a.twitter_consumer_secret
       /\ a.twitter_access_token
       /\ a.twitter_access_token_secret
    THEN "ApiKeys"
    ELSE IF a.twitter_username /\ a.twitter_password
         THEN "Ai16zTwitter"
         ELSE "Panic"

\* Faulty variant: the key-auth arm taken on the consumer pair alone
SelectTwitter_ConsumerOnly(a) ==
    IF a.twitter_username /\ a.twitter_password
    THEN "Ai16zTwitter"
    ELSE IF a.twitter_consumer_key /\ a.twitter_consumer_secret
         THEN "ApiKeys"
         ELSE "Panic"

\* The match of Runtime::new: the variant built, or "Panic" for the panic! arm.
SelectTwitter(a) ==
    IF a.twitter_username /\ a.twitter_password
    THEN "Ai16zTwitter"
    ELSE IF /\ a.twitter_consumer_key
            /\ a.twitter_consumer_secret
            /\ a.twitter_access_token
            /\ a.twitter_access_token_secret
         THEN "ApiKeys"
         ELSE "Panic"

\* MemoryStore::load_memory().unwrap_or_else(|_| Vec::new())
UnwrapOrEmpty(r) == IF r.ok THEN r.value ELSE <<>>

\* Faulty variant: load_memory().unwrap(), a load error panics
LoadPanics_Unwrap(r) == ~r.ok

\* unwrap_or_else takes the closure on Err: no load result makes new panic
LoadPanics(r) == FALSE

\* Faulty variant: the pool replaced by the new agent
Push_Replace(pool, agent) == <<agent>>

\* self.agents.push(agent)
Push(pool, agent) == Append(pool, agent)

\* Faulty variant: the emptiness check left out
IsEmpty_Never(pool) == FALSE

\* self.agents.is_empty()
IsEmpty(pool) == Len(pool) = 0

\* &self.agents[i]: Vec indexing is 0-based and panics out of bounds
InBounds(pool, i) == 0 <= i /\ i < Len(pool)

\* MemoryStore::add_to_memory pushes the text, then persists; the push stays
\* whatever the persistence returns.
AddToMemory(history, text) == Append(history, text)

\* Faulty variant: the generation error ignored, the cycle goes on
AfterPrompt_Continue(o) == "saving"

\* Faulty variant: a failed generation asked again
AfterPrompt_Retry(o) == IF o.ok THEN "saving" ELSE "prompting"

\* selected_agent.prompt("tweet").await? : where run goes after the generation
AfterPrompt(o) == IF o.ok THEN "saving" ELSE "run_ret"

\* Faulty variant: add_to_memory(..)? , the persistence error returned
AfterSave_Abort(o) == IF o = "Ok" THEN "chatting" ELSE "run_ret"

\* match add_to_memory(..) { Ok(_) => println!, Err(e) => eprintln! }
AfterSave(o) == "chatting"

\* Faulty variant: the Err arm undoes the push, self.memory.pop()
SaveArm_Rollback(o, history) ==
    IF o = "Err" THEN SubSeq(history, 1, Len(history) - 1) ELSE history

\* Faulty variant: the Err arm empties the history, self.memory.clear()
SaveArm_Clear(o, history) == IF o = "Err" THEN <<>> ELSE history

\* Both arms of the match only print: the history is left as add_to_memory left it
SaveArm(o, history) == history

\* Faulty variant: send_channel_message(..).await? , a chat error ends the cycle
AfterChat_Abort(o) == IF o = "Ok" THEN "tweeting" ELSE "run_ret"

\* self.discord.send_channel_message(..).await; the value is dropped
AfterChat(o) == "tweeting"

\* Faulty variant: the instruction label sent in place of the response
Clone_Instruction(text) == "tweet"

\* response.clone()
Clone(text) == text

\* Faulty variant: a fresh String::new() in place of the copy
ToString_Empty(text) == ""

\* text.to_string() on a &str: an owned copy of the same characters
ToString(text) == text

\* Faulty variant: the publish error dropped, Ok(()) returned
TweetResult_Swallow(o) == "Ok"

\* self.twitter.tweet(&response).await?; Ok(())
TweetResult(o) == IF o = "Ok" THEN "Ok" ELSE "TweetErr"

\* Faulty variant: the two match arms crossed
Transport_Crossed(variant) ==
    CASE variant = "ApiKeys" -> "Ai16zTwitter"
      [] variant = "Ai16zTwitter" -> "Twitter"

\* TwitterType::tweet: the transport the match arm forwards to
Transport(variant) ==
    CASE variant = "ApiKeys" -> "Twitter"
      [] variant = "Ai16zTwitter" -> "Ai16zTwitter"

\* Faulty variant: self.run().await? , an error of run leaves the loop
AfterRun_Propagate(r) == IF r = "Ok" THEN "loop_top" ELSE "loop_exit"

\* if let Err(e) = self.run().await { eprintln!(..) } : where the loop goes next
AfterRun(r) == "loop_top"

\* what the loop prints for the value run returned
LoopPrint(r) == IF r = "Ok" THEN "none" ELSE r

\* Faulty variant: sleep(..) without .await, the loop does not suspend
AfterDraw_NoAwait == "loop_run"

\* sleep(Duration::from_secs(random_sleep_duration)).await comes next
AfterDraw == "sleeping"

\* ---------------------------------------------------------------- Init

Init ==
    /\ pc = "start"
    /\ caller = "main"
    /\ newArgs \in ArgCombos
    /\ loadRes = NoLoad
    /\ twitter = "None"
    /\ agents = <<>>
    /\ memory = <<>>
    /\ loaded = <<>>
    /\ selected = NoIndex
    /\ prevSelected = NoIndex
    /\ prompted = "none"
    /\ response = NoText
    /\ saveResult = "none"
    /\ chatResult = "none"
    /\ tweetOutcome = "none"
    /\ entryMemory = <<>>
    /\ genCalls = 0
    /\ chatCalls = 0
    /\ tweetCalls = 0
    /\ result = "none"
    /\ discordLog = <<>>
    /\ tweetLog = <<>>
    /\ okGens = 0
    /\ failedBefore = FALSE
    /\ sleepDuration = 0
    /\ slept = FALSE
    /\ runsThisIter = 0
    /\ loopLog = "none"

\* ------------------------------------------------------- Runtime::new

\* lines 49-88: a variant is selected, memory is loaded, the Runtime is built
New ==
    /\ pc = "start"
    /\ SelectTwitter(newArgs) # "Panic"
    /\ \E r \in LoadOutcomes :
        /\ loadRes' = r
        /\ memory' = UnwrapOrEmpty(r)
        /\ loaded' = UnwrapOrEmpty(r)
        /\ pc' = IF LoadPanics(r) THEN "panicked" ELSE "new_ret"
    /\ twitter' = SelectTwitter(newArgs)
    /\ agents' = <<>>
    /\ UNCHANGED <<caller, newArgs, cycle, calls, result, logs, loop>>

\* line 73: panic!, before anything else of new has run
NewPanic ==
    /\ pc = "start"
    /\ SelectTwitter(newArgs) = "Panic"
    /\ pc' = "panicked"
    /\ UNCHANGED <<caller, frame, runtime, cycle, calls, result, logs, loop>>

\* new returns the Runtime; its frame is gone
NewReturn ==
    /\ pc = "new_ret"
    /\ pc' = "idle"
    /\ newArgs' = NoArgs
    /\ loadRes' = NoLoad
    /\ UNCHANGED <<caller, runtime, cycle, calls, result, logs, loop>>

\* ------------------------------------------------- Runtime::add_agent

AddAgent ==
    /\ pc = "idle"
    /\ Len(agents) < MaxAgents
    /\ \E p \in Prompts : agents' = Push(agents, p)
    /\ UNCHANGED <<pc, caller, frame, twitter, memory, loaded, cycle, calls, result, logs, loop>>

\* ------------------------------------------------------- Runtime::run

\* run is entered: nothing of this invocation has happened yet
EnterRun ==
    /\ pc' = "run_check"
    /\ result' = "none"
    /\ entryMemory' = memory
    /\ UNCHANGED <<cycle, genCalls, chatCalls, tweetCalls>>

\* run has returned: its locals are dropped, what this invocation did is no
\* longer the current invocation's; the index it drew becomes the previous one
LeaveRun ==
    /\ selected' = NoIndex
    /\ prevSelected' = selected
    /\ prompted' = "none"
    /\ response' = NoText
    /\ saveResult' = "none"
    /\ chatResult' = "none"
    /\ tweetOutcome' = "none"
    /\ failedBefore' = (failedBefore \/ result # "Ok")
    /\ entryMemory' = <<>>
    /\ genCalls' = 0
    /\ chatCalls' = 0
    /\ tweetCalls' = 0

\* the owner of the Runtime calls run
RunCall ==
    /\ pc = "idle"
    /\ EnterRun
    /\ UNCHANGED <<caller, frame, runtime, logs, loop>>

\* lines 97-99: the empty pool is an error
RunNoAgents ==
    /\ pc = "run_check"
    /\ IsEmpty(agents)
    /\ result' = "NoAgents"
    /\ pc' = "run_ret"
    /\ UNCHANGED <<caller, frame, runtime, cycle, calls, logs, loop>>

\* lines 101-102: an index is drawn and the agent borrowed.  gen_range panics on
\* an empty range, Vec indexing panics out of bounds.
RunSelect ==
    /\ pc = "run_check"
    /\ ~IsEmpty(agents)
    /\ IF GenRange(0, Len(agents)) = {}
       THEN /\ pc' = "run_panicked"
            /\ UNCHANGED selected
       ELSE /\ \E i \in GenRange(0, Len(agents)) :
                /\ selected' = i
                /\ pc' = IF InBounds(agents, i) THEN "prompting" ELSE "run_panicked"
    /\ UNCHANGED <<caller, frame, runtime, prevSelected, prompted, response, saveResult, chatResult,
                   tweetOutcome, calls, result, logs, loop>>

\* line 103: selected_agent.prompt("tweet").await?
RunPrompt ==
    /\ pc = "prompting"
    /\ \E o \in PromptOutcomes :
        /\ o.ok => Len(memory) < MaxMemory
        /\ pc' = AfterPrompt(o)
        /\ response' = o.value
        /\ okGens' = IF o.ok THEN okGens + 1 ELSE okGens
        /\ result' = IF AfterPrompt(o) = "run_ret" THEN "GenErr" ELSE result
    /\ prompted' = agents[selected + 1]
    /\ genCalls' = genCalls + 1
    /\ UNCHANGED <<caller, frame, runtime, selected, prevSelected, saveResult, chatResult,
                   tweetOutcome, entryMemory, chatCalls, tweetCalls, discordLog, tweetLog,
                   failedBefore, loop>>

\* lines 105-108: MemoryStore::add_to_memory(&mut self.memory, &response)
RunSave ==
    /\ pc = "saving"
    /\ \E o \in Outcomes :
        /\ memory' = SaveArm(o, AddToMemory(memory, response))
        /\ saveResult' = o
        /\ pc' = AfterSave(o)
        /\ result' = IF AfterSave(o) = "run_ret" THEN "SaveErr" ELSE result
    /\ UNCHANGED <<caller, frame, twitter, agents, loaded, selected, prevSelected, prompted,
                   response, chatResult, tweetOutcome, calls, logs, loop>>

\* line 111: self.discord.send_channel_message(&response.clone()).await
RunChat ==
    /\ pc = "chatting"
    /\ discordLog' = Append(discordLog, Clone(response))
    /\ chatCalls' = chatCalls + 1
    /\ \E o \in Outcomes :
        /\ chatResult' = o
        /\ pc' = AfterChat(o)
        /\ result' = IF AfterChat(o) = "run_ret" THEN "ChatErr" ELSE result
    /\ UNCHANGED <<caller, frame, runtime, selected, prevSelected, prompted, response,
                   saveResult, tweetOutcome, entryMemory, genCalls, tweetCalls, tweetLog,
                   okGens, failedBefore, loop>>

\* lines 112-113: self.twitter.tweet(&response).await?; Ok(())
RunTweet ==
    /\ pc = "tweeting"
    /\ tweetLog' = Append(tweetLog, <<Transport(twitter), ToString(response)>>)
    /\ tweetCalls' = tweetCalls + 1
    /\ \E o \in Outcomes :
        /\ tweetOutcome' = o
        /\ result' = TweetResult(o)
    /\ pc' = "run_ret"
    /\ UNCHANGED <<caller, frame, runtime, selected, prevSelected, prompted, response,
                   saveResult, chatResult, entryMemory, genCalls, chatCalls,
                   discordLog, okGens, failedBefore, loop>>

\* run returns to the owner of the Runtime
RunReturn ==
    /\ pc = "run_ret"
    /\ caller = "main"
    /\ pc' = "idle"
    /\ LeaveRun
    /\ UNCHANGED <<caller, frame, runtime, result, discordLog, tweetLog, okGens, loop>>

\* -------------------------------------------- Runtime::run_periodically

\* the owner of the Runtime calls run_periodically
RunPeriodicallyCall ==
    /\ pc = "idle"
    /\ caller' = "run_periodically"
    /\ pc' = "loop_top"
    /\ UNCHANGED <<frame, runtime, cycle, calls, result, logs, loop>>

\* line 120: let random_sleep_duration = rng.gen_range(300..=1800)
LoopDraw ==
    /\ pc = "loop_top"
    /\ \E d \in GenRangeInclusive(SLEEP_MIN, SLEEP_MAX) : sleepDuration' = d
    /\ slept' = FALSE
    /\ runsThisIter' = 0
    /\ loopLog' = "none"
    /\ pc' = AfterDraw
    /\ UNCHANGED <<caller, frame, runtime, cycle, calls, result, logs>>

\* line 122: sleep(Duration::from_secs(random_sleep_duration)).await
LoopSleep ==
    /\ pc = "sleeping"
    /\ slept' = TRUE
    /\ pc' = "loop_run"
    /\ UNCHANGED <<caller, frame, runtime, cycle, calls, result, logs,
                   sleepDuration, runsThisIter, loopLog>>

\* line 124: self.run() is called
LoopRun ==
    /\ pc = "loop_run"
    /\ EnterRun
    /\ runsThisIter' = runsThisIter + 1
    /\ UNCHANGED <<caller, frame, runtime, logs, sleepDuration, slept, loopLog>>

\* lines 124-126: the value run returned is matched, an error printed
LoopHandle ==
    /\ pc = "run_ret"
    /\ caller = "run_periodically"
    /\ loopLog' = LoopPrint(result)
    /\ pc' = AfterRun(result)
    /\ LeaveRun
    /\ UNCHANGED <<caller, frame, runtime, result, discordLog, tweetLog, okGens,
                   sleepDuration, slept, runsThisIter>>

\* ---------------------------------------------------------------- Next

Next ==
    \/ New
    \/ NewPanic
    \/ NewReturn
    \/ AddAgent
    \/ RunCall
    \/ RunNoAgents
    \/ RunSelect
    \/ RunPrompt
    \/ RunSave
    \/ RunChat
    \/ RunTweet
    \/ RunReturn
    \/ RunPeriodicallyCall
    \/ LoopDraw
    \/ LoopSleep
    \/ LoopRun
    \/ LoopHandle

Spec == Init /\ [][Next]_vars

\* The task is polled until it completes and every awaited call (the sleep, the
\* collaborators) returns: a step that is possible is eventually taken.
SpecLive == Init /\ [][Next]_vars /\ WF_vars(Next)

\* ------------------------------------------------------------- claims

AllKeys(a) ==
    /\ a.twitter_consumer_key
    /\ a.twitter_consumer_secret
    /\ a.twitter_access_token
    /\ a.twitter_access_token_secret

BothLogin(a) == a.twitter_username /\ a.twitter_password

\* the positions inside one invocation of run, after the pool check
PastCheck == {"prompting", "saving", "chatting", "tweeting", "run_panicked"}

\* C1: whatever the six optional credentials are, when username and password are
\* both given new builds the Ai16zTwitter variant (also with all four keys
\* given); otherwise, when all four keys are given, it builds ApiKeys.
C1_VariantPriority ==
    /\ pc = "new_ret" /\ BothLogin(newArgs) => twitter = "Ai16zTwitter"
    /\ pc = "new_ret" /\ ~BothLogin(newArgs) /\ AllKeys(newArgs) => twitter = "ApiKeys"
    /\ pc = "panicked" => ~BothLogin(newArgs) /\ ~AllKeys(newArgs)

\* new has returned with all six credentials given, and chose password auth
C1_Witness ==
    /\ pc = "new_ret"
    /\ BothLogin(newArgs)
    /\ AllKeys(newArgs)
    /\ twitter = "Ai16zTwitter"

\* C2: new panics exactly when neither the username/password pair nor the four
\* keys are complete; it then built no Runtime and nothing further happens.
C2_FatalExactlyWhenNoAuth ==
    /\ pc = "new_ret" => BothLogin(newArgs) \/ AllKeys(newArgs)
    /\ pc = "panicked" =>
        /\ ~BothLogin(newArgs)
        /\ ~AllKeys(newArgs)
        /\ twitter = "None"
        /\ ~ENABLED Next
    /\ pc = "start" /\ ~BothLogin(newArgs) /\ ~AllKeys(newArgs) => ~ENABLED New

\* new has panicked with only the username and only three of the four keys
C2_Witness ==
    /\ pc = "panicked"
    /\ newArgs.twitter_username
    /\ ~newArgs.twitter_password
    /\ newArgs.twitter_consumer_key
    /\ newArgs.twitter_consumer_secret
    /\ newArgs.twitter_access_token
    /\ ~newArgs.twitter_access_token_secret

\* C3: run on an empty pool goes no further than the pool check, returns the
\* "no agents" error and has changed nothing: no generation request, the memory
\* as at entry, nothing sent to the chat or the social-media target.
C3_EmptyPoolNoEffect ==
    (agents = <<>>) =>
        /\ pc \notin PastCheck
        /\ pc = "run_ret" =>
            /\ result = "NoAgents"
            /\ memory = entryMemory
            /\ genCalls = 0
            /\ chatCalls = 0
            /\ tweetCalls = 0
            /\ saveResult = "none"

\* run has returned "no agents" on a Runtime whose memory is not empty
C3_Witness ==
    /\ pc = "run_ret"
    /\ agents = <<>>
    /\ result = "NoAgents"
    /\ memory # <<>>

\* C4: a failed generation makes run return that failure at once: the memory
\* is as at entry, add_to_memory was not called, nothing was sent to the chat
\* or the social-media target; the steps after the generation only run with a
\* generated text.
C4_GenerationFailureStops ==
    /\ pc \in {"saving", "chatting", "tweeting"} => response \in Texts
    /\ pc = "run_ret" /\ genCalls > 0 /\ response \notin Texts =>
        /\ result = "GenErr"
        /\ memory = entryMemory
        /\ saveResult = "none"
        /\ chatCalls = 0
        /\ tweetCalls = 0

\* run has returned the generation failure, with a history already in memory
C4_Witness ==
    /\ pc = "run_ret"
    /\ result = "GenErr"
    /\ genCalls = 1
    /\ memory # <<>>

\* C5: a failed persistence of the append does not abort the cycle: run goes on
\* to the chat send and the publish with the generated text, and what it
\* returns is the outcome of the publish.
C5_SaveFailureIsolated ==
    /\ saveResult = "Err" => pc # "saving"
    /\ pc = "run_ret" /\ saveResult = "Err" =>
        /\ chatCalls = 1
        /\ tweetCalls = 1
        /\ discordLog[Len(discordLog)] = response
        /\ tweetLog[Len(tweetLog)][2] = response
        /\ result = (IF tweetOutcome = "Ok" THEN "Ok" ELSE "TweetErr")

\* run has returned Ok although the persistence failed
C5_Witness ==
    /\ pc = "run_ret"
    /\ saveResult = "Err"
    /\ result = "Ok"
    /\ tweetCalls = 1

\* C6: when the publish fails run returns that failure; the memory is then the
\* memory at entry extended by the generated text, and the chat send was made.
C6_PublishFailurePartialSuccess ==
    pc = "run_ret" /\ tweetOutcome = "Err" =>
        /\ result = "TweetErr"
        /\ memory = Append(entryMemory, response)
        /\ response \in Texts
        /\ chatCalls = 1

\* run has returned the publish failure and the text is the last memory entry
C6_Witness ==
    /\ pc = "run_ret"
    /\ result = "TweetErr"
    /\ Len(memory) = Len(entryMemory) + 1
    /\ memory[Len(memory)] = response

\* C7: run_periodically never returns: every value run returns, errors
\* included, takes the loop back to its top with the error printed; each
\* iteration calls run exactly once; and run is called again and again.
C7_LoopNeverStops ==
    /\ [](caller = "run_periodically" =>
            /\ pc # "loop_exit"
            /\ runsThisIter <= 1
            /\ pc = "run_ret" => runsThisIter = 1
            /\ pc = "loop_top" /\ runsThisIter = 1 =>
                loopLog = (IF result = "Ok" THEN "none" ELSE result))
    /\ (caller = "run_periodically") ~> (pc = "run_check")

\* the loop is back at its top after an iteration whose run failed
C7_Witness ==
    /\ caller = "run_periodically"
    /\ pc = "loop_top"
    /\ runsThisIter = 1
    /\ result = "GenErr"
    /\ loopLog = "GenErr"

\* C8: every sleep duration drawn lies in 300..1800, both ends included.
C8_SleepInRange ==
    pc \in {"sleeping", "loop_run"} => 300 <= sleepDuration /\ sleepDuration <= 1800

\* the loop is asleep for the longest duration
C8_Witness ==
    /\ pc = "sleeping"
    /\ sleepDuration = 1800

\* C9: on a non-empty pool the index drawn is one of 0..len-1, the borrow never
\* panics, and the generation request goes to the agent at that index.
C9_SelectedInPool ==
    /\ pc # "run_panicked"
    /\ pc \in {"prompting", "saving", "chatting", "tweeting"} =>
        /\ 0 <= selected
        /\ selected <= Len(agents) - 1
    /\ pc \in {"saving", "chatting", "tweeting"} =>
        /\ prompted = agents[selected + 1]
        /\ \E k \in 1..Len(agents) : agents[k] = prompted

\* the last agent of a pool of several is chosen in two cycles in a row
C9_Witness ==
    /\ pc = "prompting"
    /\ Len(agents) >= 2
    /\ selected = Len(agents) - 1
    /\ prevSelected = selected

\* C10: one invocation of run makes at most one generation request, at most one
\* chat send and at most one publish attempt.
C10_AtMostOnce ==
    /\ genCalls <= 1
    /\ chatCalls <= 1
    /\ tweetCalls <= 1

\* run has returned after a failed publish, every step made exactly once
C10_Witness ==
    /\ pc = "run_ret"
    /\ genCalls = 1
    /\ chatCalls = 1
    /\ tweetCalls = 1
    /\ tweetOutcome = "Err"

\* a is the beginning of b
IsPrefix(a, b) == Len(a) <= Len(b) /\ SubSeq(b, 1, Len(a)) = a

\* the positions inside one invocation of run
InRun == {"run_check", "prompting", "saving", "chatting", "tweeting", "run_ret"}

\* C11: the pool only grows: the only step that changes it is add_agent, which
\* puts exactly one agent after the existing ones and leaves the existing
\* agents, the memory and the targets alone.
C11_PoolOnlyGrows ==
    [][\/ agents' = agents
       \/ /\ pc = "idle"
          /\ pc' = "idle"
          /\ Len(agents') = Len(agents) + 1
          /\ SubSeq(agents', 1, Len(agents)) = agents
          /\ agents'[Len(agents')] \in Prompts
          /\ UNCHANGED <<memory, twitter, discordLog, tweetLog>>]_vars

\* two different agents were added, in that order, to a Runtime with a history
C11_Witness ==
    /\ pc = "idle"
    /\ agents = <<"p1", "p2">>
    /\ memory = <<"t1">>

\* C12: the memory is append-only: every step leaves the earlier history as the
\* beginning of the later one, and the append adds the generated text also
\* when its persistence fails.
C12_MemoryAppendOnly ==
    [][/\ IsPrefix(memory, memory')
       /\ pc = "saving" => memory' = Append(memory, response)]_vars

\* the persistence has failed and the text is in the memory, after older entries
C12_Witness ==
    /\ pc = "chatting"
    /\ saveResult = "Err"
    /\ entryMemory # <<>>
    /\ memory = Append(entryMemory, response)

\* C13: a failed load does not fail new: the Runtime is built with an empty
\* memory and an empty pool (and with the stored history when the load
\* succeeds); new panics only for the credentials.
C13_LoadFailureAbsorbed ==
    /\ pc = "new_ret" =>
        /\ agents = <<>>
        /\ twitter \in {"ApiKeys", "Ai16zTwitter"}
        /\ loadRes.ok => memory = loadRes.value
        /\ ~loadRes.ok => memory = <<>>
    /\ pc = "panicked" => twitter = "None"

\* new has returned a Runtime although load_memory failed
C13_Witness ==
    /\ pc = "new_ret"
    /\ ~loadRes.ok
    /\ memory = <<>>
    /\ agents = <<>>

\* C14: the steps of a cycle come in the order selection, generation, append,
\* chat send, publish, each doing its own effect only; the publish follows the
\* chat send whatever that returned, and what run returns is the outcome of
\* the publish, not of the chat send.
C14_StepOrder ==
    /\ [][/\ pc = "run_check" => pc' \in {"prompting", "run_ret"}
          /\ pc = "prompting" =>
                /\ pc' \in {"saving", "run_ret"}
                /\ genCalls' = genCalls + 1
                /\ UNCHANGED <<memory, discordLog, tweetLog>>
          /\ pc = "saving" =>
                /\ pc' = "chatting"
                /\ Len(memory') = Len(memory) + 1
                /\ UNCHANGED <<discordLog, tweetLog>>
          /\ pc = "chatting" =>
                /\ pc' = "tweeting"
                /\ Len(discordLog') = Len(discordLog) + 1
                /\ UNCHANGED <<memory, tweetLog>>
          /\ pc = "tweeting" =>
                /\ pc' = "run_ret"
                /\ Len(tweetLog') = Len(tweetLog) + 1
                /\ UNCHANGED <<memory, discordLog>>]_vars
    /\ [](pc = "run_ret" /\ chatCalls = 1 =>
            /\ tweetCalls = 1
            /\ result = (IF tweetOutcome = "Ok" THEN "Ok" ELSE "TweetErr"))

\* the chat send failed, the publish was made all the same and run returned Ok
C14_Witness ==
    /\ pc = "run_ret"
    /\ chatResult = "Err"
    /\ tweetCalls = 1
    /\ result = "Ok"

\* C15: in run_periodically a cycle only runs after the sleep of its iteration
\* has been drawn and has completed, the first cycle included, and while the
\* loop draws or sleeps no cycle is in progress.
C15_SleepBeforeEachRun ==
    caller = "run_periodically" =>
        /\ pc \in InRun =>
            /\ slept
            /\ runsThisIter = 1
            /\ 300 <= sleepDuration
            /\ sleepDuration <= 1800
        /\ pc \in {"loop_top", "sleeping", "loop_run"} =>
            /\ selected = NoIndex
            /\ response = NoText
            /\ genCalls = 0
            /\ chatCalls = 0
            /\ tweetCalls = 0
        /\ pc = "sleeping" => ~slept /\ runsThisIter = 0
        /\ pc = "loop_run" => slept /\ runsThisIter = 0

\* a cycle of the loop begins, after its sleep, once an earlier run has failed
C15_Witness ==
    /\ caller = "run_periodically"
    /\ pc = "run_check"
    /\ slept
    /\ runsThisIter = 1
    /\ failedBefore

\* C16: once new has chosen the variant no step changes it; every publish went
\* to the transport of that variant, and what the transport returned is what
\* run returns.
C16_VariantFixed ==
    /\ [][pc # "start" => (twitter' = twitter)]_vars
    /\ [](\A i \in 1..Len(tweetLog) :
            tweetLog[i][1] = (IF twitter = "ApiKeys" THEN "Twitter" ELSE "Ai16zTwitter"))
    /\ [](pc = "run_ret" /\ tweetOutcome # "none" =>
            result = (IF tweetOutcome = "Err" THEN "TweetErr" ELSE "Ok"))

\* two publishes went out on the key-auth variant, with two agents added and a
\* failed run in between
C16_Witness ==
    /\ pc = "idle"
    /\ twitter = "ApiKeys"
    /\ Len(agents) = 2
    /\ Len(tweetLog) = 2
    /\ failedBefore

\* no step of a cycle touches the pool or the variant, and a cycle that returns
\* an error leaves the memory as at entry or extended by the generated text
StateIntact ==
    /\ [][(pc \in InRun) => (agents' = agents /\ twitter' = twitter)]_vars
    /\ [](pc = "run_ret" /\ result # "Ok" =>
            \/ memory = entryMemory
            \/ response \in Texts /\ memory = Append(entryMemory, response))

\* no collaborator call of the current cycle has failed
NoCallFailed ==
    /\ ~(genCalls > 0 /\ response \notin Texts)
    /\ saveResult # "Err"
    /\ chatResult # "Err"
    /\ tweetOutcome # "Err"

\* C17 as stated: after a run has returned an error, a later cycle in which no
\* collaborator fails returns Ok.
C17_Original ==
    failedBefore /\ pc = "run_ret" /\ NoCallFailed => result = "Ok"

\* C17 as amended: a cycle that returns an error leaves the pool and the
\* variant unchanged and the memory unchanged or extended by exactly the
\* generated text; after it, a later cycle on a non-empty pool in which no
\* collaborator fails returns Ok.
C17_FailureLeavesStateIntact ==
    /\ StateIntact
    /\ [](failedBefore /\ pc = "run_ret" /\ agents # <<>> /\ NoCallFailed => result = "Ok")

\* a run returns Ok after an earlier run returned an error
C17_Witness ==
    /\ failedBefore
    /\ pc = "run_ret"
    /\ result = "Ok"

\* C18: run returns Ok exactly when the pool is not empty, the generation
\* succeeded and the publish succeeded; after a successful generation the
\* publish is always reached, so the persistence and the chat send decide
\* nothing.
C18_OkIff ==
    pc = "run_ret" =>
        /\ result \in {"Ok", "NoAgents", "GenErr", "TweetErr"}
        /\ result = "Ok" <=> (agents # <<>> /\ response \in Texts /\ tweetOutcome = "Ok")
        /\ response \in Texts => tweetOutcome # "none"

\* run has returned Ok although the persistence and the chat send both failed
C18_Witness ==
    /\ pc = "run_ret"
    /\ result = "Ok"
    /\ saveResult = "Err"
    /\ chatResult = "Err"

\* C19: the text appended to the memory, the text sent to the chat target and
\* the text published are the text the generation returned.
C19_SameText ==
    /\ saveResult # "none" => response \in Texts /\ memory[Len(memory)] = response
    /\ chatCalls = 1 => discordLog[Len(discordLog)] = response
    /\ tweetCalls = 1 => tweetLog[Len(tweetLog)][2] = response

\* a cycle has appended, sent and published the text "t2" after entries "t1"
C19_Witness ==
    /\ pc = "run_ret"
    /\ response = "t2"
    /\ memory = <<"t1", "t2">>
    /\ discordLog[Len(discordLog)] = "t2"
    /\ tweetLog[Len(tweetLog)][2] = "t2"

\* C20: between invocations of run the memory is as long as the loaded history
\* plus the number of cycles whose generation succeeded, and as many publishes
\* (and chat sends) were attempted as generations succeeded.
C20_Counts ==
    pc \in {"new_ret", "idle", "run_check", "run_ret", "loop_top", "sleeping", "loop_run"} =>
        /\ Len(memory) = Len(loaded) + okGens
        /\ Len(tweetLog) = okGens
        /\ Len(discordLog) = okGens

\* one generation succeeded on a loaded history, and another run failed
C20_Witness ==
    /\ pc = "idle"
    /\ loaded = <<"t1">>
    /\ okGens = 1
    /\ Len(memory) = 2
    /\ Len(tweetLog) = 1
    /\ failedBefore

====
